---- MODULE Spec2Model ----
(***************************************************************************)
(* Postal code -> temperature chain: the gateway (service_a) validates a   *)
(* code and forwards it to the lookup service (service_b), which resolves  *)
(* the locality and then the temperature with two external providers.      *)
(* Both handlers emit OpenTelemetry spans and propagate the trace context. *)
(*                                                                         *)
(* Strings are sequences of one-character strings.  Temperatures are kept  *)
(* in hundredths of a degree.  A handler is split where it blocks on an    *)
(* outbound HTTP call.                                                     *)
(***************************************************************************)
EXTENDS Integers, Sequences, FiniteSets, TLC

\* ------------------------------------------------------------------------
\* Program constants
\* ------------------------------------------------------------------------

\* `^\d{8}$` : the repetition count of the validator's pattern
CEPLen == 8

\* context.WithTimeout(tracectx, 5000*time.Millisecond), in seconds
TimeoutSeconds == 5

StatusOK == 200
StatusBadRequest == 400
StatusNotFound == 404
StatusUnprocessableEntity == 422
StatusInternalServerError == 500

\* ------------------------------------------------------------------------
\* Bounds of the model
\* ------------------------------------------------------------------------

\* trace identifiers a client may send in a traceparent header: 1..MaxClientTrace
MaxClientTrace == 1

\* ------------------------------------------------------------------------
\* Input domains
\* ------------------------------------------------------------------------

Digits == {"0", "1", "2", "3", "4", "5", "6", "7", "8", "9"}

CepSaoPaulo == <<"0", "1", "0", "0", "1", "0", "0", "0">>
CepUnknown == <<"9", "9", "9", "9", "9", "9", "9", "9">>

\* codes a client can put into a request
Ceps ==
  { CepSaoPaulo, CepUnknown,
    <<>>,
    <<"1", "2", "3">>,
    <<"0", "1", "0", "0", "1", "0", "0", "a">>,
    <<"0", "1", "0", "0", "1", "0", "0", "0", "0">>,
    <<"0", "1", "0", "0", "1", "0", "0", "0", "\n">>,
    <<"0", "1", "0", "0", "1", "\n", "0", "0">>,
    <<"0", "1", "0", "0", "1", "0", "0">>,
    <<"0", "1", "0", "0", "1", "-", "0", "0", "0">>,
    <<" ", "1", "0", "0", "1", "0", "0", "0">> }

\* codes a direct client of the lookup service sends: every invalid one and
\* one valid one
DirectCeps == Ceps \ {CepUnknown}

NoTrace == 0
ClientTraces == 1..MaxClientTrace

\* bodies of POST / : what the client wrote
Bodies ==
  [kind : {"malformed", "empty", "null", "nocep", "cepnotstring"}, cep : {<<>>}]
    \cup [kind : {"object"}, cep : Ceps]

Cities == {"Sao Paulo"}

\* temperatures the weather provider reports, in hundredths of a degree
Temps == {2500, -530}

NoRecord == [city |-> "", tempC |-> 0, tempF |-> 0, tempK |-> 0]

\* ------------------------------------------------------------------------
\* common.IsValidCEP
\* ------------------------------------------------------------------------

\* \d of RE2 : ASCII digits only
IsDigit(c) == c \in Digits

\* ^\d{8}$ without the m flag : $ matches only at the end of the text
IsValidCEP_AnyLength(cep) == \A i \in 1..Len(cep) : IsDigit(cep[i])

IsValidCEP_Prefix(cep) ==
  /\ Len(cep) >= CEPLen
  /\ \A i \in 1..CEPLen : IsDigit(cep[i])

\* a $ that also matches before a final newline, as with Perl's or Python's $
IsValidCEP_DollarBeforeNewline(cep) ==
  \/ Len(cep) = CEPLen /\ \A i \in 1..CEPLen : IsDigit(cep[i])
  \/ /\ Len(cep) = CEPLen + 1 /\ cep[CEPLen + 1] = "\n"
     /\ \A i \in 1..CEPLen : IsDigit(cep[i])

IsValidCEP(cep) ==
  /\ Len(cep) = CEPLen
  /\ \A i \in 1..Len(cep) : IsDigit(cep[i])

\* ------------------------------------------------------------------------
\* json decoding of the request and response bodies
\* ------------------------------------------------------------------------

\* json.NewDecoder(r.Body).Decode(&entrada) into Entrada{CEP string `json:"cep"`}
DecodeEntrada(body) ==
  CASE body.kind \in {"malformed", "empty", "cepnotstring"} ->
         [err |-> TRUE, cep |-> <<>>]
    [] body.kind \in {"null", "nocep"} -> [err |-> FALSE, cep |-> <<>>]
    [] OTHER -> [err |-> FALSE, cep |-> body.cep]

\* json.Unmarshal(body, &response) into common.WeatherResponse: any JSON
\* object decodes, unknown members are dropped and absent ones stay zero
DecodeWeatherResponse_KelvinTag(b) ==
  CASE b.kind = "record" -> [err |-> FALSE, rec |-> [b.rec EXCEPT !.tempK = 0]]
    [] b.kind = "jsonobject" -> [err |-> FALSE, rec |-> NoRecord]
    [] OTHER -> [err |-> TRUE, rec |-> NoRecord]

DecodeWeatherResponse(b) ==
  CASE b.kind = "record" -> [err |-> FALSE, rec |-> b.rec]
    [] b.kind = "jsonobject" -> [err |-> FALSE, rec |-> NoRecord]
    [] OTHER -> [err |-> TRUE, rec |-> NoRecord]

\* ------------------------------------------------------------------------
\* Tracing: spans, and the propagator installed by common.InitProvider
\* ------------------------------------------------------------------------

\* the W3C trace-context propagator set as the global one at start-up
Propagator == "tracecontext"

\* otel.GetTextMapPropagator().Extract(ctx, carrier): the trace of the
\* traceparent header becomes the (remote) parent held by ctx
Extract(header) == IF Propagator = "tracecontext" THEN header ELSE NoTrace

\* otel.GetTextMapPropagator().Inject(ctx, carrier): the header written for
\* the span held by ctx
Inject(ctxTrace) == IF Propagator = "tracecontext" THEN ctxTrace ELSE NoTrace

\* trace of a span started in a context: the parent's, or a new one
TraceFor(ctxTrace, fresh) == IF ctxTrace # NoTrace THEN ctxTrace ELSE fresh

\* Tracer.Start(ctx, name)
SpanStart(ss, svc, name, trace) ==
  Append(ss, [svc |-> svc, name |-> name, trace |-> trace,
              ends |-> 0, status |-> "unset", errors |-> 0])

\* span.End()
SpanEnd(ss, i) == [ss EXCEPT ![i].ends = @ + 1]

\* span.SetStatus(codes.Error, msg): ignored once the span has ended
SpanSetError(ss, i) ==
  IF ss[i].ends = 0 THEN [ss EXCEPT ![i].status = "error"] ELSE ss

\* span.RecordError(err): ignored once the span has ended
SpanRecordError(ss, i) ==
  IF ss[i].ends = 0 THEN [ss EXCEPT ![i].errors = @ + 1] ELSE ss

\* ------------------------------------------------------------------------
\* State
\* ------------------------------------------------------------------------

VARIABLES
  gw,        \* the gateway's handleRequest for one inbound POST /
  gwCall,    \* its outbound GET /weather (http.DefaultClient.Do)
  elapsed,   \* seconds since the outbound call's context was created
  lk,        \* the lookup service's weatherHandler for one inbound request
  cityCall,  \* its call to the address provider
  tempCall,  \* its call to the weather provider
  spans,     \* every span started, in the order of Tracer.Start
  nextTrace, \* the next trace identifier the SDK generates
  proc       \* main of each service process

vars == <<gw, gwCall, elapsed, lk, cityCall, tempCall, spans, nextTrace, proc>>

Services == {"service_a", "service_b"}

\* values of WEATHERAPI_KEY in the environment of service_b
ApiKeys == {"", "key"}

\* main before its first statement
ProcInit(key) ==
  [pc |-> "start", key |-> key, signaled |-> FALSE, tracer |-> FALSE,
   bound |-> FALSE]

\* the lookup service's call to the address provider before it is issued
NoCityCall == [state |-> "none", arg |-> <<>>, outcome |-> "none",
               answer |-> [kind |-> "none", erro |-> FALSE, localidade |-> ""],
               city |-> "", n |-> 0]

\* the lookup service's call to the weather provider before it is issued
NoTempCall == [state |-> "none", arg |-> <<>>, outcome |-> "none",
               answer |-> [kind |-> "none", hasCurrent |-> FALSE, temp |-> 0],
               temp |-> 0, n |-> 0]

\* the gateway's outbound call before it is issued
GwNoCall == [state |-> "none", arg |-> <<>>, header |-> NoTrace,
             outcome |-> "none", status |-> 0,
             body |-> [kind |-> "none", rec |-> NoRecord], n |-> 0]

Init ==
  /\ gw = [pc |-> "idle", body |-> [kind |-> "empty", cep |-> <<>>],
           header |-> NoTrace, cancelled |-> FALSE, cep |-> <<>>,
           status |-> 0, writes |-> 0, resp |-> NoRecord, span |-> 0]
  /\ gwCall = GwNoCall
  /\ elapsed = 0
  /\ lk = [pc |-> "idle", cep |-> <<>>, header |-> NoTrace,
           origin |-> "none", traced |-> TRUE, cancelled |-> FALSE,
           valid |-> FALSE,
           city |-> "", ctx |-> NoTrace, span |-> 0,
           status |-> 0, writes |-> 0, resp |-> NoRecord, log |-> <<>>]
  /\ cityCall = NoCityCall
  /\ tempCall = NoTempCall
  /\ spans = <<>>
  /\ nextTrace = MaxClientTrace + 1
  /\ \E k \in ApiKeys :
       proc = [s \in Services |->
                 IF s = "service_b" THEN ProcInit(k) ELSE ProcInit("")]

\* http.Error(w, msg, code) and json.NewEncoder(w).Encode(v): the first write
\* fixes the status
WriteResponse(h, code, rec) ==
  [h EXCEPT !.status = IF @ = 0 THEN code ELSE @,
            !.writes = @ + 1,
            !.resp = IF h.status = 0 THEN rec ELSE @]

\* ------------------------------------------------------------------------
\* Gateway (service_a)
\* ------------------------------------------------------------------------

\* what handleRequest does with the decoded body before any outbound call
GwDecision_NoDecodeCheck(body) ==
  IF ~IsValidCEP(DecodeEntrada(body).cep) THEN "invalid" ELSE "forward"

GwDecision(body) ==
  IF DecodeEntrada(body).err THEN "badpayload"
  ELSE IF ~IsValidCEP(DecodeEntrada(body).cep) THEN "invalid"
  ELSE "forward"

\* the context whose span getTemperatura injects into the outbound headers
InjectedContext(spanCtx) == spanCtx

\* handleRequest up to the point where it blocks in http.DefaultClient.Do,
\* or to its return on a 400 / 422
GwReceive(body, header) ==
  /\ proc["service_a"].pc = "listening"
  /\ gw.pc = "idle"
  /\ LET ctx0 == Extract(header)
         trace == TraceFor(ctx0, nextTrace)
         s1 == SpanStart(spans, "service_a", "Validate inputs", trace)
         v == Len(s1)
         d == GwDecision(body)
         g0 == [gw EXCEPT !.body = body, !.header = header,
                          !.cep = DecodeEntrada(body).cep]
     IN  /\ nextTrace' = IF ctx0 = NoTrace THEN nextTrace + 1 ELSE nextTrace
         /\ CASE d = "badpayload" ->
                   /\ gw' = [WriteResponse(g0, StatusBadRequest, NoRecord)
                               EXCEPT !.pc = "done"]
                   /\ spans' = SpanEnd(SpanSetError(SpanRecordError(s1, v), v), v)
                   /\ UNCHANGED <<gwCall, elapsed>>
              [] d = "invalid" ->
                   /\ gw' = [WriteResponse(g0, StatusUnprocessableEntity, NoRecord)
                               EXCEPT !.pc = "done"]
                   /\ spans' = SpanEnd(SpanSetError(s1, v), v)
                   /\ UNCHANGED <<gwCall, elapsed>>
              [] OTHER ->
                   LET s2 == SpanStart(SpanEnd(s1, v), "service_a",
                                       "Call to service_b", trace)
                   IN  /\ spans' = s2
                       /\ gw' = [g0 EXCEPT !.pc = "calling", !.span = Len(s2)]
                       /\ gwCall' = [gwCall EXCEPT
                                       !.state = "inflight", !.arg = g0.cep,
                                       !.header = Inject(InjectedContext(trace)),
                                       !.n = @ + 1]
                       /\ elapsed' = 0
  /\ UNCHANGED <<lk, cityCall, tempCall, proc>>

\* the deadline of context.WithTimeout(tracectx, 5000*time.Millisecond)
DeadlineExceeded_Never(e) == FALSE

DeadlineExceeded(e) == e >= TimeoutSeconds

\* bodies a peer at WEATHER_SERVICE can answer with
PeerStatuses == {200, 404, 503}

PeerBodies ==
  [kind : {"text", "empty", "jsonobject"}, rec : {NoRecord}]
    \cup [kind : {"record"},
          rec : {[city |-> "Sao Paulo", tempC |-> 2500, tempF |-> 7700,
                  tempK |-> 29800]}]

\* the body the lookup service wrote: the record as JSON on 200, else the
\* plain text of http.Error
LookupBody(l) ==
  IF l.status = StatusOK THEN [kind |-> "record", rec |-> l.resp]
  ELSE [kind |-> "text", rec |-> NoRecord]

\* getTemperatura's result for what http.DefaultClient.Do produced: an error
\* from Do, ReadAll or Unmarshal, else the decoded record
GetTemperaturaResult(outcome, status, body) ==
  IF outcome # "response" THEN [err |-> TRUE, rec |-> NoRecord]
  ELSE DecodeWeatherResponse(body)

\* the rest of handleRequest once getTemperatura returned
GwFinish(outcome, status, body) ==
  LET r == GetTemperaturaResult(outcome, status, body)
      c == gw.span
  IN  /\ gwCall' = [gwCall EXCEPT !.state = "done", !.outcome = outcome,
                                  !.status = status, !.body = body]
      /\ IF r.err
         THEN /\ gw' = [WriteResponse(gw, StatusInternalServerError, NoRecord)
                          EXCEPT !.pc = "done"]
              /\ spans' = SpanEnd(SpanSetError(SpanRecordError(spans, c), c), c)
         ELSE /\ gw' = [WriteResponse(gw, StatusOK, r.rec) EXCEPT !.pc = "done"]
              /\ spans' = SpanEnd(spans, c)
      /\ UNCHANGED <<elapsed, nextTrace, cityCall, tempCall, proc>>

\* the lookup service is still serving the gateway's call
LookupServesGateway == lk.origin = "gateway" /\ lk.pc \in {"city", "temp"}

\* closing the outbound connection cancels the peer's request context
AbandonLookup ==
  lk' = IF LookupServesGateway THEN [lk EXCEPT !.cancelled = TRUE] ELSE lk

\* the lookup service's response arrives before the deadline
GwLookupResponds ==
  /\ gw.pc = "calling" /\ gwCall.state = "inflight"
  /\ ~gw.cancelled /\ ~DeadlineExceeded(elapsed)
  /\ lk.origin = "gateway" /\ lk.pc = "done" /\ ~lk.cancelled
  /\ GwFinish("response", lk.status, LookupBody(lk))
  /\ UNCHANGED lk

\* WEATHER_SERVICE names another HTTP peer (a proxy, a stand-in) and it answers
GwPeerResponds(status, body) ==
  /\ gw.pc = "calling" /\ gwCall.state = "inflight"
  /\ ~gw.cancelled /\ ~DeadlineExceeded(elapsed)
  /\ lk.origin # "gateway"
  /\ GwFinish("response", status, body)
  /\ UNCHANGED lk

\* connection refused or reset: Do returns a transport error
GwTransportError ==
  /\ gw.pc = "calling" /\ gwCall.state = "inflight"
  /\ ~gw.cancelled /\ ~DeadlineExceeded(elapsed)
  /\ GwFinish("transport", 0, [kind |-> "none", rec |-> NoRecord])
  /\ AbandonLookup

\* the 5 second context expires: Do returns context.DeadlineExceeded
GwDeadline ==
  /\ gw.pc = "calling" /\ gwCall.state = "inflight"
  /\ DeadlineExceeded(elapsed)
  /\ GwFinish("timeout", 0, [kind |-> "none", rec |-> NoRecord])
  /\ AbandonLookup

\* the inbound context is done: Do returns context.Canceled
GwCanceled ==
  /\ gw.pc = "calling" /\ gwCall.state = "inflight"
  /\ gw.cancelled /\ ~DeadlineExceeded(elapsed)
  /\ GwFinish("canceled", 0, [kind |-> "none", rec |-> NoRecord])
  /\ AbandonLookup

\* the gateway's client goes away: net/http cancels r.Context()
GwClientDisconnect ==
  /\ gw.pc = "calling" /\ ~gw.cancelled
  /\ gw' = [gw EXCEPT !.cancelled = TRUE]
  /\ UNCHANGED <<gwCall, elapsed, lk, cityCall, tempCall, spans, nextTrace,
                 proc>>

\* one second passes while the outbound call is in flight
Tick ==
  /\ gwCall.state = "inflight" /\ elapsed < TimeoutSeconds
  /\ elapsed' = elapsed + 1
  /\ UNCHANGED <<gw, gwCall, lk, cityCall, tempCall, spans, nextTrace, proc>>

\* ------------------------------------------------------------------------
\* Lookup service (service_b)
\* ------------------------------------------------------------------------

\* what the address provider call can produce: httpGet's error, or a body
CityAnswers ==
  [kind : {"transport", "notjson"}, erro : {FALSE}, localidade : {""}]
    \cup [kind : {"json"}, erro : BOOLEAN, localidade : Cities \cup {""}]

\* what the weather provider call can produce; a JSON body without
\* current.temp_c is the provider's error object
TempAnswers ==
  [kind : {"transport", "notjson"}, hasCurrent : {FALSE}, temp : {0}]
    \cup [kind : {"json"}, hasCurrent : {TRUE}, temp : Temps]
    \cup [kind : {"json"}, hasCurrent : {FALSE}, temp : {0}]

\* ApiClient.getCityByCEP
GetCityByCEP_NoErroCheck(a) ==
  IF a.kind # "json" THEN [err |-> TRUE, city |-> ""]
  ELSE [err |-> FALSE, city |-> a.localidade]

GetCityByCEP(a) ==
  IF a.kind # "json" THEN [err |-> TRUE, city |-> ""]
  ELSE IF a.erro \/ a.localidade = "" THEN [err |-> TRUE, city |-> ""]
  ELSE [err |-> FALSE, city |-> a.localidade]

\* ApiClient.getTemperatureByCity
GetTemperatureByCity(a) ==
  IF a.kind # "json" THEN [err |-> TRUE, temp |-> 0]
  ELSE [err |-> FALSE, temp |-> IF a.hasCurrent THEN a.temp ELSE 0]

\* common.WeatherResponse{City, TempC, tempC*1.8 + 32, tempC + 273}; the
\* provider reports one decimal, so the product is whole in hundredths
MakeWeatherResponse_Kelvin15(city, tempC) ==
  [city |-> city, tempC |-> tempC,
   tempF |-> (tempC * 18) \div 10 + 3200,
   tempK |-> tempC + 27315]

MakeWeatherResponse(city, tempC) ==
  [city |-> city, tempC |-> tempC,
   tempF |-> (tempC * 18) \div 10 + 3200,
   tempK |-> tempC + 27300]

\* the context weatherHandler starts its first span in
LkFirstContext_NoExtract(header) == NoTrace

LkFirstContext(header) == Extract(header)

\* the argument weatherHandler passes to getTemperatureByCity, as the
\* one-element sequence holding the locality
TemperatureArgument_Cep(cep, city) == cep

TemperatureArgument(cep, city) == <<city>>

\* whether weatherHandler stops after the locality step
StopsAfterCity(res) == res.err

\* the span calls of weatherHandler's return on a failed locality step
CityFailureSpan_NoEnd(ss, c) == SpanSetError(SpanRecordError(ss, c), c)

CityFailureSpan_NoStatus(ss, c) == SpanEnd(SpanRecordError(ss, c), c)

CityFailureSpan(ss, c) == SpanEnd(SpanSetError(SpanRecordError(ss, c), c), c)

\* span operations happen only in the traced handler
Traced(on, ssNew, ssOld) == IF on THEN ssNew ELSE ssOld

\* weatherHandler up to the point where it blocks in getCityByCEP, or to its
\* return on a 422
LkHandle(cep, header, origin, traced) ==
  /\ proc["service_b"].pc = "listening"
  /\ lk.pc = "idle"
  /\ LET ctx0 == LkFirstContext(header)
         trace == TraceFor(ctx0, nextTrace)
         s1 == SpanStart(spans, "service_b", "Validate inputs", trace)
         v == Len(s1)
         l0 == [lk EXCEPT !.cep = cep, !.header = header, !.origin = origin,
                          !.traced = traced, !.valid = IsValidCEP(cep),
                          !.ctx = IF traced THEN trace ELSE NoTrace,
                          !.log = Append(@, "validate")]
     IN  /\ nextTrace' = IF traced /\ ctx0 = NoTrace THEN nextTrace + 1
                         ELSE nextTrace
         /\ IF ~l0.valid
            THEN /\ lk' = [WriteResponse(l0, StatusUnprocessableEntity, NoRecord)
                             EXCEPT !.pc = "done"]
                 /\ spans' = Traced(traced, SpanEnd(SpanSetError(s1, v), v), spans)
                 /\ UNCHANGED cityCall
            ELSE LET s2 == SpanStart(SpanEnd(s1, v), "service_b",
                                     "Get City from Zipcode", trace)
                 IN  /\ spans' = Traced(traced, s2, spans)
                     /\ lk' = [l0 EXCEPT !.pc = "city",
                                         !.span = IF traced THEN Len(s2) ELSE 0,
                                         !.log = Append(@, "city_call")]
                     /\ cityCall' = [cityCall EXCEPT !.state = "inflight",
                                                     !.arg = cep, !.n = @ + 1]
  /\ UNCHANGED <<gw, gwCall, elapsed, tempCall, proc>>

\* the gateway's GET /weather?cep=... reaches the lookup service
LkReceiveFromGateway ==
  /\ gwCall.state = "inflight" /\ ~gw.cancelled /\ ~DeadlineExceeded(elapsed)
  /\ LkHandle(gwCall.arg, gwCall.header, "gateway", TRUE)

\* a client calls the lookup endpoint directly: the traced handler, or the
\* earlier one without spans
LkReceiveFromClient(cep, header, traced) ==
  LkHandle(cep, header, "client", traced)

\* getCityByCEP returns; weatherHandler goes on to getTemperatureByCity or
\* returns a 404
LkCityReturns(a) ==
  /\ lk.pc = "city" /\ cityCall.state = "inflight"
  /\ LET res == GetCityByCEP(a)
         c == lk.span
         l0 == [lk EXCEPT !.log = Append(@, "city_done")]
     IN  /\ cityCall' = [cityCall EXCEPT
                           !.state = "done",
                           !.outcome = IF res.err THEN "err" ELSE "ok",
                           !.answer = a, !.city = res.city]
         /\ IF StopsAfterCity(res)
            THEN /\ lk' = [WriteResponse(l0, StatusNotFound, NoRecord)
                             EXCEPT !.pc = "done"]
                 /\ spans' = Traced(lk.traced, CityFailureSpan(spans, c), spans)
                 /\ UNCHANGED tempCall
            ELSE LET s2 == SpanStart(SpanEnd(spans, c), "service_b",
                                     "Get City temperature", lk.ctx)
                 IN  /\ spans' = Traced(lk.traced, s2, spans)
                     /\ lk' = [l0 EXCEPT !.pc = "temp", !.city = res.city,
                                   !.span = IF lk.traced THEN Len(s2) ELSE 0,
                                   !.log = Append(@, "temp_call")]
                     /\ tempCall' = [tempCall EXCEPT
                                       !.state = "inflight",
                                       !.arg = TemperatureArgument(lk.cep, res.city),
                                       !.n = @ + 1]
  /\ UNCHANGED <<gw, gwCall, elapsed, nextTrace, proc>>

\* what weatherHandler writes once getTemperatureByCity returned
LkTempResponse_NoReturn(l, res) ==
  IF res.err
  THEN WriteResponse(WriteResponse(l, StatusNotFound, NoRecord), StatusOK,
                     MakeWeatherResponse(l.city, res.temp))
  ELSE WriteResponse(l, StatusOK, MakeWeatherResponse(l.city, res.temp))

LkTempResponse(l, res) ==
  IF res.err THEN WriteResponse(l, StatusNotFound, NoRecord)
  ELSE WriteResponse(l, StatusOK, MakeWeatherResponse(l.city, res.temp))

\* getTemperatureByCity returns; weatherHandler writes the record or a 404
LkTempReturns(a) ==
  /\ lk.pc = "temp" /\ tempCall.state = "inflight"
  /\ LET res == GetTemperatureByCity(a)
         c == lk.span
         l0 == [lk EXCEPT !.log = Append(@, "temp_done")]
     IN  /\ tempCall' = [tempCall EXCEPT
                           !.state = "done",
                           !.outcome = IF res.err THEN "err" ELSE "ok",
                           !.answer = a, !.temp = res.temp]
         /\ lk' = [LkTempResponse(l0, res) EXCEPT !.pc = "done"]
         /\ IF res.err
            THEN spans' = Traced(lk.traced,
                   SpanEnd(SpanSetError(SpanRecordError(spans, c), c), c),
                   spans)
            ELSE spans' = Traced(lk.traced, SpanEnd(spans, c), spans)
  /\ UNCHANGED <<gw, gwCall, elapsed, cityCall, nextTrace, proc>>

\* a direct client of the lookup service goes away: r.Context() is cancelled
LkClientDisconnect ==
  /\ lk.origin = "client" /\ lk.pc \in {"city", "temp"} /\ ~lk.cancelled
  /\ lk' = [lk EXCEPT !.cancelled = TRUE]
  /\ UNCHANGED <<gw, gwCall, elapsed, cityCall, tempCall, spans, nextTrace,
                 proc>>

\* ------------------------------------------------------------------------
\* The service processes (main)
\* ------------------------------------------------------------------------

\* service_b: apiKey == "" ends main in log.Fatalf
KeyMissing_Never(s, key) == FALSE

KeyMissing(s, key) == s = "service_b" /\ key = ""

\* how the start of a process can go: InitProvider fails, the port cannot
\* be bound, or the server listens
StartOutcomes == {"providerfail", "bindfail", "ok"}

\* main from its first statement into http.ListenAndServe: the key check
\* (service_b), signal.Notify, InitProvider, the router, the listener.
\* log.Fatal ends the process; ListenAndServe does not return while the
\* listener works, so the select after it is not reached.
ProcStart(s, outcome) ==
  /\ proc[s].pc = "start"
  /\ proc' = [proc EXCEPT ![s] =
       IF KeyMissing(s, proc[s].key) THEN [@ EXCEPT !.pc = "exited"]
       ELSE IF outcome = "providerfail" THEN [@ EXCEPT !.pc = "exited"]
       ELSE IF outcome = "bindfail"
            THEN [@ EXCEPT !.pc = "exited", !.tracer = TRUE]
       ELSE [@ EXCEPT !.pc = "listening", !.tracer = TRUE, !.bound = TRUE]]
  /\ UNCHANGED <<gw, gwCall, elapsed, lk, cityCall, tempCall, spans, nextTrace>>

\* an interrupt signal reaches the process: before signal.Notify it ends
\* the process; afterwards it is delivered to sigCh and cancels the
\* NotifyContext, which nothing reads while main is in ListenAndServe
ProcSignal(s) ==
  /\ proc[s].pc \in {"start", "listening"} /\ ~proc[s].signaled
  /\ proc' = [proc EXCEPT ![s] =
       IF proc[s].pc = "start" THEN [@ EXCEPT !.pc = "exited", !.signaled = TRUE]
       ELSE [@ EXCEPT !.signaled = TRUE]]
  /\ UNCHANGED <<gw, gwCall, elapsed, lk, cityCall, tempCall, spans, nextTrace>>

\* ------------------------------------------------------------------------
\* Specifications
\* ------------------------------------------------------------------------

Headers == {NoTrace} \cup ClientTraces

Next ==
  \/ \E b \in Bodies, h \in Headers : GwReceive(b, h)
  \/ GwLookupResponds
  \/ \E st \in PeerStatuses, b \in PeerBodies : GwPeerResponds(st, b)
  \/ GwTransportError
  \/ GwDeadline
  \/ GwCanceled
  \/ GwClientDisconnect
  \/ Tick
  \/ LkReceiveFromGateway
  \/ \E c \in DirectCeps, h \in Headers, t \in BOOLEAN :
       LkReceiveFromClient(c, h, t)
  \/ \E a \in CityAnswers : LkCityReturns(a)
  \/ \E a \in TempAnswers : LkTempReturns(a)
  \/ LkClientDisconnect
  \/ \E s \in Services, o \in StartOutcomes : ProcStart(s, o)
  \/ \E s \in Services : ProcSignal(s)

Spec == Init /\ [][Next]_vars

\* The chain as deployed: the lookup service is called by the gateway only
ChainNext ==
  \/ \E b \in Bodies, h \in Headers : GwReceive(b, h)
  \/ GwLookupResponds
  \/ \E st \in PeerStatuses, b \in PeerBodies : GwPeerResponds(st, b)
  \/ GwTransportError
  \/ GwDeadline
  \/ GwCanceled
  \/ GwClientDisconnect
  \/ Tick
  \/ LkReceiveFromGateway
  \/ \E a \in CityAnswers : LkCityReturns(a)
  \/ \E a \in TempAnswers : LkTempReturns(a)
  \/ \E s \in Services, o \in StartOutcomes : ProcStart(s, o)
  \/ \E s \in Services : ProcSignal(s)

\* The Go scheduler runs every goroutine that can run, and time passes: main,
\* the gateway's handler, its HTTP client and the context's timer make
\* progress. Nothing makes a peer or a provider answer.
FairSpec ==
  /\ Init /\ [][ChainNext]_vars
  /\ WF_vars(\E b \in Bodies, h \in Headers : GwReceive(b, h))
  /\ WF_vars(Tick)
  /\ WF_vars(GwDeadline)
  /\ WF_vars(GwCanceled)
  /\ WF_vars(GwLookupResponds)
  /\ WF_vars(\E s \in Services, o \in StartOutcomes : ProcStart(s, o))

\* ------------------------------------------------------------------------
\* Properties
\* ------------------------------------------------------------------------

\* a code of exactly eight decimal digits, stated without the validator
EightDigits(c) ==
  /\ Cardinality(DOMAIN c) = 8
  /\ {c[i] : i \in DOMAIN c} \subseteq Digits

SpansOf(svc) == {i \in DOMAIN spans : spans[i].svc = svc}

SpansNamed(svc, name) == {i \in SpansOf(svc) : spans[i].name = name}

\* C1: whenever the gateway's downstream call ended in a timeout, a
\* transport error, a response whose status is not 2xx or a response whose
\* body does not decode, the gateway answered 500 (never 200).
C1_DownstreamFailureIs500 ==
  (/\ gw.pc = "done" /\ gwCall.state = "done"
   /\ \/ gwCall.outcome # "response"
      \/ gwCall.status < 200 \/ gwCall.status > 299
      \/ gwCall.body.kind \notin {"record", "jsonobject"})
    => gw.status = StatusInternalServerError

\* C2: a gateway request whose body decodes to a code that is not exactly
\* eight decimal digits is answered 422 and no outbound request to the
\* lookup service is issued for it.
C2_InvalidCodeIs422NoCall ==
  (/\ gw.pc # "idle"
   /\ gw.body.kind \in {"object", "null", "nocep"}
   /\ ~EightDigits(gw.cep))
    => /\ gw.pc = "done" /\ gw.status = StatusUnprocessableEntity
       /\ gwCall.n = 0 /\ gwCall.state = "none"
       /\ lk.origin # "gateway"

C2_Witness ==
  /\ gw.pc = "done" /\ gw.status = StatusUnprocessableEntity
  /\ gw.body = [kind |-> "object",
                cep |-> <<"0", "1", "0", "0", "1", "0", "0", "0", "0">>]

\* C3: once the context of an inbound request is cancelled, an outbound call
\* still in flight for that request does not complete with the peer's
\* answer: it stays in flight or ends cancelled, in the gateway (call to the
\* lookup service) and in the lookup service (calls to the two providers).
C3_CancellationPropagates ==
  [][/\ (gw.cancelled /\ gwCall.state = "inflight")
          => (gwCall'.state = "inflight"
                \/ gwCall'.outcome \in {"canceled", "timeout"})
     /\ (lk.cancelled /\ cityCall.state = "inflight")
          => (cityCall'.state = "inflight" \/ cityCall'.outcome = "canceled")
     /\ (lk.cancelled /\ tempCall.state = "inflight")
          => (tempCall'.state = "inflight" \/ tempCall'.outcome = "canceled")
    ]_vars

\* C4: a validated gateway request always gets its response, and when the
\* lookup service was unreachable or silent for the 5 seconds the call was
\* abandoned and the response is 500.
C4_GatewayBounded ==
  /\ [](/\ (gw.pc = "done" /\ gwCall.outcome \in {"timeout", "transport"})
              => gw.status = StatusInternalServerError
        /\ (gwCall.state = "done" /\ gwCall.outcome = "response")
              => elapsed < TimeoutSeconds)
  /\ (gw.pc = "calling" ~> gw.pc = "done")

C4_Witness ==
  /\ gw.pc = "done" /\ gwCall.outcome = "timeout" /\ elapsed = TimeoutSeconds
  /\ gw.status = StatusInternalServerError

LookupSteps == <<"validate", "city_call", "city_done", "temp_call", "temp_done">>

\* C5: in the lookup handler the steps happen in the order validation,
\* locality, temperature; the locality resolver is called only with a
\* validated code, the temperature resolver only after the locality resolver
\* succeeded and with the locality it returned, and a 200 has gone through
\* every step.
C5_LookupOrdering ==
  /\ Len(lk.log) <= Len(LookupSteps)
  /\ lk.log = SubSeq(LookupSteps, 1, Len(lk.log))
  /\ cityCall.n > 0 => EightDigits(cityCall.arg)
  /\ tempCall.n > 0 =>
       /\ cityCall.state = "done"
       /\ cityCall.answer.kind = "json" /\ ~cityCall.answer.erro
       /\ cityCall.answer.localidade # ""
       /\ tempCall.arg = <<cityCall.answer.localidade>>
  /\ lk.status = StatusOK =>
       /\ lk.log = LookupSteps
       /\ cityCall.n = 1 /\ tempCall.n = 1 /\ tempCall.state = "done"

C5_Witness ==
  /\ lk.pc = "done" /\ lk.status = StatusOK
  /\ tempCall.arg = <<"Sao Paulo">>

\* C6: after a successful end-to-end request the gateway's
\* "Call to service_b" span and the lookup service's "Validate inputs" span
\* exist and carry the same trace identifier.
C6_TracePropagation ==
  (/\ gw.pc = "done" /\ gw.status = StatusOK
   /\ gwCall.outcome = "response" /\ lk.origin = "gateway")
    => /\ SpansNamed("service_a", "Call to service_b") # {}
       /\ SpansNamed("service_b", "Validate inputs") # {}
       /\ \A i \in SpansNamed("service_a", "Call to service_b") :
            \A j \in SpansNamed("service_b", "Validate inputs") :
              spans[i].trace # NoTrace /\ spans[i].trace = spans[j].trace

C6_Witness ==
  /\ gw.pc = "done" /\ gw.status = StatusOK /\ gw.header = NoTrace
  /\ gwCall.outcome = "response" /\ lk.origin = "gateway"

\* C7: a lookup request whose cep is not exactly eight decimal digits is
\* answered 422 and neither resolver is called.
C7_LookupInvalidIs422 ==
  (lk.pc # "idle" /\ ~EightDigits(lk.cep))
    => /\ lk.pc = "done" /\ lk.status = StatusUnprocessableEntity
       /\ cityCall.n = 0 /\ tempCall.n = 0

C7_Witness ==
  /\ lk.pc = "done" /\ lk.status = StatusUnprocessableEntity
  /\ lk.cep = <<"0", "1", "0", "0", "1", "0", "0", "0", "\n">>

\* C8: when the locality resolver failed for a valid code (transport
\* failure, erro: true, or empty locality) the lookup response is 404 and
\* the temperature resolver is not called.
C8_LocalityFailureIs404 ==
  (/\ cityCall.state = "done"
   /\ \/ cityCall.answer.kind = "transport"
      \/ cityCall.answer.kind = "json"
           /\ (cityCall.answer.erro \/ cityCall.answer.localidade = ""))
    => /\ lk.pc = "done" /\ lk.status = StatusNotFound
       /\ tempCall.n = 0 /\ tempCall.state = "none"

C8_Witness ==
  /\ lk.pc = "done" /\ lk.status = StatusNotFound
  /\ cityCall.answer = [kind |-> "json", erro |-> TRUE,
                        localidade |-> "Sao Paulo"]

\* C9: a gateway request whose body is not decodable is answered 400, the
\* only gateway span is "Validate inputs", and no downstream call is made.
C9_BadPayloadIs400 ==
  (gw.pc # "idle" /\ gw.body.kind \in {"malformed", "empty", "cepnotstring"})
    => /\ gw.pc = "done" /\ gw.status = StatusBadRequest
       /\ gwCall.n = 0 /\ gwCall.state = "none" /\ lk.origin # "gateway"
       /\ Cardinality(SpansOf("service_a")) = 1
       /\ \A i \in SpansOf("service_a") : spans[i].name = "Validate inputs"

C9_Witness ==
  /\ gw.pc = "done" /\ gw.status = StatusBadRequest
  /\ gw.body.kind = "malformed"
  /\ SpansNamed("service_a", "Validate inputs") # {}

\* C10: no span is ended twice, and when a handler has returned every span
\* it started has been ended exactly once.
C10_SpanLifecycle ==
  /\ \A i \in DOMAIN spans : spans[i].ends <= 1
  /\ gw.pc = "done" => \A i \in SpansOf("service_a") : spans[i].ends = 1
  /\ lk.pc = "done" => \A i \in SpansOf("service_b") : spans[i].ends = 1

C10_Witness ==
  /\ gw.pc = "done" /\ lk.pc = "done"
  /\ lk.status = StatusNotFound /\ cityCall.outcome = "err"
  /\ Cardinality(SpansOf("service_a")) = 2
  /\ Cardinality(SpansOf("service_b")) = 2

\* C11: the validator answers true for a string of exactly eight decimal
\* digits and false for every other string: a wrong length, a character that
\* is no digit, the empty string, a newline inside or at the end.
C11_ValidatorExact ==
  lk.pc # "idle" => (lk.valid <=> EightDigits(lk.cep))

C11_Witness ==
  /\ lk.pc # "idle" /\ ~lk.valid
  /\ lk.cep = <<"0", "1", "0", "0", "1", "0", "0", "0", "\n">>
  /\ \A i \in 1..8 : lk.cep[i] \in Digits

C13_GatewayRelaysVerbatim ==
  (/\ gw.pc = "done" /\ gwCall.outcome = "response"
   /\ gwCall.status = StatusOK /\ gwCall.body.kind = "record")
    => /\ gw.status = StatusOK
       /\ gw.resp.city = gwCall.body.rec.city
       /\ gw.resp.tempC = gwCall.body.rec.tempC
       /\ gw.resp.tempF = gwCall.body.rec.tempF
       /\ gw.resp.tempK = gwCall.body.rec.tempK
       /\ lk.origin = "gateway" => gw.resp = lk.resp

C13_Witness ==
  /\ gw.pc = "done" /\ gw.status = StatusOK /\ lk.origin = "gateway"
  /\ lk.status = StatusOK
  /\ gw.resp = [city |-> "Sao Paulo", tempC |-> -530, tempF |-> 2246,
                tempK |-> 26770]

\* C14: a handler writes nothing before it returns and exactly one response
\* when it returns; it never writes a second one.
C14_ExactlyOneResponse ==
  /\ gw.writes = IF gw.pc = "done" THEN 1 ELSE 0
  /\ lk.writes = IF lk.pc = "done" THEN 1 ELSE 0
  /\ gw.pc = "done" => gw.status # 0
  /\ lk.pc = "done" => lk.status # 0

C14_Witness ==
  /\ gw.pc = "done" /\ gw.status = StatusInternalServerError /\ gw.writes = 1
  /\ lk.pc = "done" /\ lk.status = StatusNotFound /\ lk.writes = 1
  /\ tempCall.outcome = "err"

\* the downstream call of the gateway failed: no response, or a status
\* that is not 2xx, or a body that does not decode
GatewayUpstreamFailed ==
  /\ gwCall.state = "done"
  /\ \/ gwCall.outcome # "response"
     \/ gwCall.status < 200 \/ gwCall.status > 299
     \/ gwCall.body.kind \notin {"record", "jsonobject"}

\* the address provider call failed or found nothing
CityUpstreamFailed ==
  /\ cityCall.state = "done"
  /\ \/ cityCall.answer.kind # "json"
     \/ cityCall.answer.erro \/ cityCall.answer.localidade = ""

\* the weather provider call failed or carried no current temperature
TempUpstreamFailed ==
  /\ tempCall.state = "done"
  /\ (tempCall.answer.kind # "json" \/ ~tempCall.answer.hasCurrent)

\* C15: one inbound request makes at most one call to the lookup service,
\* at most one to the address provider and at most one to the weather
\* provider; after an upstream failure no further call is made and the
\* request fails.
C15_NoRetries ==
  /\ gwCall.n <= 1 /\ cityCall.n <= 1 /\ tempCall.n <= 1
  /\ CityUpstreamFailed => tempCall.n = 0
  /\ (gw.pc = "done" /\ GatewayUpstreamFailed) => gw.status # StatusOK
  /\ (lk.pc = "done" /\ (CityUpstreamFailed \/ TempUpstreamFailed))
       => lk.status # StatusOK

\* C19: when the temperature step failed in any way (transport failure,
\* unparseable body, or a JSON body without current.temp_c) the lookup
\* response is 404; a 200 is sent only for a body that carried a current
\* temperature.
C19_NoTemperatureIs404 ==
  /\ (lk.pc = "done" /\ TempUpstreamFailed) => lk.status = StatusNotFound
  /\ (lk.pc = "done" /\ lk.status = StatusOK)
       => (tempCall.answer.kind = "json" /\ tempCall.answer.hasCurrent)

ErrorSpans(svc) == {i \in SpansOf(svc) : spans[i].status = "error"}

\* the span a service started last is the only one with error status, and
\* every span of the service has ended
OnlyLastSpanInError(svc) ==
  /\ Cardinality(ErrorSpans(svc)) = 1
  /\ \A i \in ErrorSpans(svc) : \A j \in SpansOf(svc) : j <= i
  /\ \A j \in SpansOf(svc) : spans[j].ends = 1

\* C20: in both traced handlers a request answered with a status other than
\* 200 has exactly one span with error status, the last one started, and a
\* request answered 200 has none.
C20_SpanStatusMatchesOutcome ==
  /\ (gw.pc = "done" /\ gw.status # StatusOK) => OnlyLastSpanInError("service_a")
  /\ (gw.pc = "done" /\ gw.status = StatusOK) => ErrorSpans("service_a") = {}
  /\ (lk.pc = "done" /\ lk.traced /\ lk.status # StatusOK)
       => OnlyLastSpanInError("service_b")
  /\ (lk.pc = "done" /\ lk.status = StatusOK) => ErrorSpans("service_b") = {}

C20_Witness ==
  /\ lk.pc = "done" /\ lk.traced /\ lk.status = StatusNotFound
  /\ cityCall.outcome = "err"
  /\ \E i \in ErrorSpans("service_b") : spans[i].name = "Get City from Zipcode"
  /\ gw.pc = "done" /\ gw.status = StatusInternalServerError
  /\ \E i \in ErrorSpans("service_a") : spans[i].name = "Call to service_b"

\* C17: after an interrupt signal was delivered to a service process, the
\* process eventually terminates.
C17_ShutdownAfterSignal ==
  \A s \in Services : proc[s].signaled ~> proc[s].pc = "exited"

\* C18: with an empty weather-provider key the lookup process never binds
\* its port, never initialises the tracer provider and serves no request.
C18_NoKeyNoListener ==
  proc["service_b"].key = ""
    => /\ proc["service_b"].pc # "listening"
       /\ ~proc["service_b"].bound /\ ~proc["service_b"].tracer
       /\ lk.pc = "idle" /\ lk.writes = 0
       /\ cityCall.n = 0 /\ tempCall.n = 0
       /\ SpansOf("service_b") = {}

C18_Witness ==
  /\ proc["service_b"].key = "" /\ proc["service_b"].pc = "exited"
  /\ ~proc["service_b"].signaled
  /\ proc["service_a"].pc = "listening" /\ gw.pc = "done"

====
